---- MODULE Spec2Model ----
\* Model of the link checker of app/qa.py (LinkTester run through
\* BuildTest.test) together with the link catalogue of app/templates/links.py.
\*
\* One run is modelled: the tester is constructed (Init), test() is called,
\* _test() strips and deduplicates the catalogue, asyncio.run drives
\* get_failures, which opens a session, builds the semaphore and gathers one
\* fetch task per URL.  Every step of a task between two suspension points is
\* one action.  The transport (aiohttp) is the environment: each request ends
\* with a response of some status or with one of the exceptions aiohttp can
\* raise.  A response is taken to carry the URL it was requested with.
EXTENDS Integers, Sequences, FiniteSets, TLC

\* ---------------------------------------------------------------- bounds
MaxLinks == 3
MaxConcurrency == 2

\* ------------------------------------------------------------ the inputs
\* A link is a sequence of characters.  "#" starts a fragment identifier.
LinkPool ==
    { <<"x">>,
      <<"x", "#", "a">>,
      <<"x", "#", "b">>,
      <<"y", "#">>,
      <<"z", "#", "b", "#", "c">> }

\* The values of the catalogue dict, in insertion order.
Catalogs == UNION { [1..n -> LinkPool] : n \in 0..MaxLinks }

\* Values LinkTester(concurrency=..., warn=...) may be constructed with.
ConcurrencyValues == (-1)..MaxConcurrency

\* Statuses a response can carry; redirects are not followed
\* (allow_redirects=False), so a 3xx reaches the caller as it is.
Statuses == {200, 301, 404}

\* ClientConnectorSSLError and ClientConnectorCertificateError share one except
\* clause and are told apart nowhere: one name stands for either.
SSLErrors == {"ClientConnectorSSLError/CertificateError"}
ResponseErrors == {"ClientResponseError"}
TimeoutErrors == {"TimeoutError"}
\* Exceptions of the transport that fetch has no except clause for.
UncaughtErrors == {"ClientConnectorError"}
TransportErrors == SSLErrors \cup ResponseErrors \cup TimeoutErrors \cup UncaughtErrors

\* Status carried by a ClientResponseError (err.status).
ResponseErrorStatuses == {500}

\* ------------------------------------------------------------- helpers
Range(s) == { s[i] : i \in DOMAIN s }

\* All orders in which a set can be iterated.
Orderings(S) ==
    { s \in [1..Cardinality(S) -> S] : \A i, j \in DOMAIN s : i # j => s[i] # s[j] }

\* link.split('#')[0]
strip_nothing(link) == link
strip_fragment_identifiers(link) ==
    LET hashes == { i \in DOMAIN link : link[i] = "#" }
        first == IF hashes = {} THEN Len(link) + 1
                 ELSE CHOOSE i \in hashes : \A j \in hashes : i <= j
    IN  SubSeq(link, 1, first - 1)

\* set(strip_fragment_identifiers(link) for link in links.values())
StrippedSet(cat) == { strip_fragment_identifiers(cat[i]) : i \in DOMAIN cat }

\* The value a fetch returns: a response object or None.
None == [none |-> TRUE]
Response(u, s) == [url |-> u, status |-> s]

\* r is not None and r.status != 200
is_failure_from_400(r) == r # None /\ r.status >= 400
is_failure(r) == r # None /\ r.status # 200

\* [r for r in responses if ...]
Filter_first_only(rs) ==
    LET idx == { i \in DOMAIN rs : is_failure(rs[i]) }
    IN  IF idx = {} THEN <<>>
        ELSE <<rs[CHOOSE i \in idx : \A j \in idx : i <= j]>>
RECURSIVE Filter(_)
Filter(rs) ==
    IF rs = <<>> THEN <<>>
    ELSE IF is_failure(Head(rs)) THEN <<Head(rs)>> \o Filter(Tail(rs))
         ELSE Filter(Tail(rs))

\* f'{fail.url}: {fail.status}'
FailLine_url_only(r) == r.url
FailLine(r) == r.url \o <<": ", ToString(r.status)>>
FailLines(fs) == [i \in DOMAIN fs |-> FailLine(fs[i])]

\* BuildTestResult; NoResult stands for "no result object was built".
NoResult == [made |-> FALSE, passed |-> FALSE, output |-> <<>>]
BuildTestResult(p, out) == [made |-> TRUE, passed |-> p, output |-> out]

\* asyncio.Semaphore: a counter of free permits.
NoLock == [made |-> FALSE, value |-> 0]
Semaphore(n) == [made |-> TRUE, value |-> n]
can_acquire_always(l) == TRUE
can_acquire(l) == l.value > 0
acquire(l) == [l EXCEPT !.value = @ - 1]
release_leak(l) == l
release(l) == [l EXCEPT !.value = @ + 1]

\* One session.get as the transport sees it: the ssl flag it was issued with
\* and how it ended.
Pending(flag) == [ssl |-> flag, kind |-> "pending", status |-> 0, error |-> "none"]
Responded(q, s) == [q EXCEPT !.kind = "response", !.status = s]
Failed(q, e) == [q EXCEPT !.kind = "error", !.error = e]
Abandoned(q) == IF q.kind = "pending" THEN [q EXCEPT !.kind = "cancelled"] ELSE q

\* the log of one URL with its last request replaced by q
Settle(log, q) == [log EXCEPT ![Len(log)] = q]
Last(log) == log[Len(log)]

\* ---------------------------------------------------------------- state
VARIABLES
    concurrency,   \* self.concurrency
    warn_only,     \* self.warn_only
    links,         \* the name `links` of _test: the values of the imported
                   \* catalogue, then (from line 129 on) the set of stripped
                   \* URLs in its iteration order
    nlinks,        \* len(links) of the imported catalogue
    session,       \* the aiohttp.ClientSession: "none", "open", "closed"
    lock,          \* the semaphore of get_failures
    task,          \* one fetch task per URL: [pc, ret, exc]
    requests,      \* per URL, every session.get issued for it, as the transport saw it
    gatherExc,     \* the exception asyncio.gather propagates (the first raised)
    fails,         \* `failures` of get_failures
    test_result,   \* what _test returned
    stdout,        \* lines printed
    pc,            \* position of the caller of test()
    exc            \* exception that left test()

vars == <<concurrency, warn_only, links, nlinks, session, lock, task,
          requests, gatherExc, fails, test_result, stdout, pc, exc>>

\* ------------------------------------------------- policy tests of fetch
\* `if self.warn_only:` in the SSL clause
TolerateSSL_Always == TRUE
TolerateSSL == warn_only
\* `if self.warn_only:` in the ClientResponseError clause
TolerateResponseError == warn_only
\* `if self.warn_only:` in the TimeoutError clause
TolerateTimeout == warn_only
\* ssl=False of the second session.get
RetrySSLFlag_Verify == TRUE
RetrySSLFlag == FALSE

\* ----------------------------------------------------------------- Init
\* LinkTester.__init__ stores both arguments as they are.
Init ==
    /\ concurrency \in ConcurrencyValues
    /\ warn_only \in BOOLEAN
    /\ links \in Catalogs
    /\ nlinks = Len(links)
    /\ session = "none"
    /\ lock = NoLock
    /\ task = <<>>
    /\ requests = <<>>
    /\ gatherExc = "none"
    /\ fails = <<>>
    /\ test_result = NoResult
    /\ stdout = <<>>
    /\ pc = "constructed"
    /\ exc = "none"

\* -------------------------------------------- the tail of _test and test
\* responses of gather, in the order of the awaitables
Responses == [i \in DOMAIN links |-> task[links[i]].ret]

\* _test after asyncio.run returned `fs`
ResultOf_inverted(fs) ==
    IF warn_only THEN BuildTestResult(TRUE, <<>>)
    ELSE BuildTestResult(fs # <<>>, FailLines(fs))
ResultOf(fs) ==
    IF warn_only THEN BuildTestResult(TRUE, <<>>)
    ELSE BuildTestResult(fs = <<>>, FailLines(fs))

\* what _test prints after asyncio.run returned `fs`
WarningsOf(fs) ==
    IF warn_only THEN <<<<"\nAdditional Warnings:">>>> \o FailLines(fs)
    ELSE <<>>

\* what test() prints for result r
ReportOf_no_output(r) ==
    <<<<"\nTesting Links">>>> \o
    (IF ~r.passed THEN <<<<"  - Fail!">>>> ELSE <<<<"  - Pass">>>>)
ReportOf(r) ==
    <<<<"\nTesting Links">>>> \o
    (IF ~r.passed
     THEN <<<<"  - Fail!">>>> \o
          (IF r.output # <<>>
           THEN <<<<"Output:">>>> \o [i \in DOMAIN r.output |-> <<"  ">> \o r.output[i]]
           ELSE <<>>)
     ELSE <<<<"  - Pass">>>>)

\* get_failures from the return of gather on, then the rest of _test and test
Complete(rs) ==
    LET fs == Filter(rs)
        r  == ResultOf(fs)
    IN  /\ fails' = fs
        /\ session' = "closed"
        /\ test_result' = r
        /\ stdout' = stdout \o WarningsOf(fs) \o ReportOf(r)
        /\ pc' = IF r.passed THEN "returned" ELSE "raised"
        /\ exc' = IF r.passed THEN "none" ELSE "BuildTestFailure"

\* ------------------------------------------------------------- actions
\* test() -> _test() -> asyncio.run(get_failures(links)) up to `await gather`
Test ==
    /\ pc = "constructed"
    /\ \E order \in Orderings(StrippedSet(links)) :
        /\ links' = order
        /\ IF concurrency < 0
           THEN \* asyncio.Semaphore raises ValueError for a negative value
                /\ session' = "closed"
                /\ pc' = "raised"
                /\ exc' = "ValueError"
                /\ stdout' = Append(stdout, <<>>)
                /\ UNCHANGED <<lock, task, requests, fails, test_result>>
           ELSE /\ lock' = Semaphore(concurrency)
                /\ task' = [u \in Range(order) |-> [pc |-> "pending", ret |-> None, exc |-> "none"]]
                /\ requests' = [u \in Range(order) |-> <<>>]
                /\ IF order = <<>>
                   THEN \* gather() of nothing is already done
                        /\ fails' = <<>>
                        /\ session' = "closed"
                        /\ test_result' = ResultOf(<<>>)
                        /\ stdout' = Append(stdout, <<>>) \o WarningsOf(<<>>)
                                        \o ReportOf(ResultOf(<<>>))
                        /\ pc' = "returned"
                        /\ exc' = "none"
                   ELSE /\ session' = "open"
                        /\ pc' = "gather"
                        /\ stdout' = Append(stdout, <<>>)
                        /\ UNCHANGED <<fails, test_result, exc>>
    /\ UNCHANGED <<concurrency, warn_only, nlinks, gatherExc>>

\* The waiter the semaphore admits next: tasks reach `async with lock` in the
\* order of the awaitables and wait first-in first-out.
NextWaiter(u) ==
    \E i \in DOMAIN links :
        /\ links[i] = u
        /\ task[u].pc = "pending"
        /\ \A j \in 1..(i - 1) : task[links[j]].pc # "pending"

\* The event loop runs the fetches while get_failures awaits gather and, after
\* a fetch raised, while the exception travels out of get_failures: through the
\* close of the session and the end of the coroutine, until asyncio.run starts
\* to cancel what is left.
Stepping == pc \in {"gather", "closing", "left"}

\* `async with lock:` entered, first session.get issued
FetchStart(u) ==
    /\ Stepping
    /\ NextWaiter(u)
    /\ can_acquire(lock)
    /\ lock' = acquire(lock)
    /\ task' = [task EXCEPT ![u].pc = "get"]
    /\ requests' = [requests EXCEPT ![u] = Append(@, Pending(TRUE))]
    /\ UNCHANGED <<concurrency, warn_only, links, nlinks, session, gatherExc,
                   fails, test_result, stdout, pc, exc>>

\* a fetch returns value r after its request ended as q: the permit goes back
Return_keeps_permit(u, r, q) ==
    /\ task' = [task EXCEPT ![u].pc = "returned", ![u].ret = r]
    /\ requests' = [requests EXCEPT ![u] = Settle(@, q)]
    /\ UNCHANGED <<lock, gatherExc>>
Return(u, r, q) ==
    /\ task' = [task EXCEPT ![u].pc = "returned", ![u].ret = r]
    /\ requests' = [requests EXCEPT ![u] = Settle(@, q)]
    /\ lock' = release(lock)
    /\ UNCHANGED gatherExc

\* a fetch raises e: the permit goes back, gather takes the first exception
Raise(u, e) ==
    /\ task' = [task EXCEPT ![u].pc = "raised", ![u].exc = e]
    /\ requests' = [requests EXCEPT ![u] = Settle(@, Failed(Last(@), e))]
    /\ lock' = release(lock)
    /\ gatherExc' = IF gatherExc = "none" THEN e ELSE gatherExc

\* the first session.get returns a response
FetchResponse(u, s) ==
    /\ Stepping
    /\ task[u].pc = "get"
    /\ Return(u, Response(u, s), Responded(Last(requests[u]), s))
    /\ UNCHANGED <<concurrency, warn_only, links, nlinks, session,
                   fails, test_result, stdout, pc, exc>>

\* the first session.get raises an SSL or certificate error
FetchSSLError_release(u, e) ==
    /\ Stepping
    /\ task[u].pc = "get"
    /\ IF TolerateSSL
       THEN /\ stdout' = Append(stdout, <<"SSL error when fetching ">> \o u)
            /\ task' = [task EXCEPT ![u].pc = "retry"]
            /\ requests' = [requests EXCEPT ![u] =
                               Append(Settle(@, Failed(Last(@), e)), Pending(RetrySSLFlag))]
            /\ lock' = release(lock)
            /\ UNCHANGED gatherExc
       ELSE /\ Raise(u, e)
            /\ UNCHANGED stdout
    /\ UNCHANGED <<concurrency, warn_only, links, nlinks, session,
                   fails, test_result, pc, exc>>
FetchSSLError(u, e) ==
    /\ Stepping
    /\ task[u].pc = "get"
    /\ IF TolerateSSL
       THEN /\ stdout' = Append(stdout, <<"SSL error when fetching ">> \o u)
            /\ task' = [task EXCEPT ![u].pc = "retry"]
            /\ requests' = [requests EXCEPT ![u] =
                               Append(Settle(@, Failed(Last(@), e)), Pending(RetrySSLFlag))]
            /\ UNCHANGED <<lock, gatherExc>>
       ELSE /\ Raise(u, e)
            /\ UNCHANGED stdout
    /\ UNCHANGED <<concurrency, warn_only, links, nlinks, session,
                   fails, test_result, pc, exc>>

\* the first session.get raises ClientResponseError with status s
FetchResponseError(u, e, s) ==
    /\ Stepping
    /\ task[u].pc = "get"
    /\ IF TolerateResponseError
       THEN /\ stdout' = Append(stdout, <<"Error fetching ">> \o u
                                   \o <<", status code: ", ToString(s)>>)
            /\ Return(u, None, Failed(Last(requests[u]), e))
       ELSE /\ Raise(u, e)
            /\ UNCHANGED stdout
    /\ UNCHANGED <<concurrency, warn_only, links, nlinks, session,
                   fails, test_result, pc, exc>>

\* the first session.get times out
FetchTimeout_retry(u, e) ==
    /\ Stepping
    /\ task[u].pc = "get"
    /\ IF TolerateTimeout
       THEN /\ stdout' = Append(stdout, <<"Took too long trying to fetch ">> \o u)
            /\ task' = [task EXCEPT ![u].pc = "retry"]
            /\ requests' = [requests EXCEPT ![u] =
                               Append(Settle(@, Failed(Last(@), e)), Pending(TRUE))]
            /\ UNCHANGED <<lock, gatherExc>>
       ELSE /\ Raise(u, e)
            /\ UNCHANGED stdout
    /\ UNCHANGED <<concurrency, warn_only, links, nlinks, session,
                   fails, test_result, pc, exc>>
FetchTimeout(u, e) ==
    /\ Stepping
    /\ task[u].pc = "get"
    /\ IF TolerateTimeout
       THEN /\ stdout' = Append(stdout, <<"Took too long trying to fetch ">> \o u)
            /\ Return(u, None, Failed(Last(requests[u]), e))
       ELSE /\ Raise(u, e)
            /\ UNCHANGED stdout
    /\ UNCHANGED <<concurrency, warn_only, links, nlinks, session,
                   fails, test_result, pc, exc>>

\* the first session.get raises an exception no clause catches
FetchUncaught(u, e) ==
    /\ Stepping
    /\ task[u].pc = "get"
    /\ Raise(u, e)
    /\ UNCHANGED <<concurrency, warn_only, links, nlinks, session,
                   fails, test_result, stdout, pc, exc>>

\* the second session.get (ssl=False) returns a response
RetryResponse(u, s) ==
    /\ Stepping
    /\ task[u].pc = "retry"
    /\ Return(u, Response(u, s), Responded(Last(requests[u]), s))
    /\ UNCHANGED <<concurrency, warn_only, links, nlinks, session,
                   fails, test_result, stdout, pc, exc>>

\* the second session.get raises: it runs inside the except clause, so no
\* other clause of the same try statement handles what it raises
RetryError(u, e) ==
    /\ Stepping
    /\ task[u].pc = "retry"
    /\ Raise(u, e)
    /\ UNCHANGED <<concurrency, warn_only, links, nlinks, session,
                   fails, test_result, stdout, pc, exc>>

\* gather has every result: failures, the result, the report of test()
GatherDone ==
    /\ pc = "gather"
    /\ \A u \in DOMAIN task : task[u].pc = "returned"
    /\ Complete(Responses)
    /\ UNCHANGED <<concurrency, warn_only, links, nlinks, lock, task,
                   requests, gatherExc>>

\* a task that is cancelled leaves `async with lock` if it was inside
Cancelled(t) ==
    IF t.pc \in {"pending", "get", "retry"} THEN [t EXCEPT !.pc = "cancelled"] ELSE t

\* the fetches inside `async with lock`
Holders == { u \in DOMAIN task : task[u].pc \in {"get", "retry"} }

\* gather raises the first exception into get_failures: `async with
\* aiohttp.ClientSession()` closes the session, at once or over several turns
\* of the event loop; the fetches are not cancelled by it
GatherRaise ==
    /\ pc = "gather"
    /\ gatherExc # "none"
    /\ session' = "closed"
    /\ pc' \in {"closing", "left"}
    /\ UNCHANGED <<concurrency, warn_only, links, nlinks, lock, task, requests,
                   gatherExc, fails, test_result, stdout, exc>>

\* the close of the session is done: the exception leaves get_failures
LeaveGetFailures ==
    /\ pc = "closing"
    /\ pc' = "left"
    /\ UNCHANGED <<concurrency, warn_only, links, nlinks, session, lock, task,
                   requests, gatherExc, fails, test_result, stdout, exc>>

\* asyncio.run, on its way out, asks every task still running to cancel
CancelAll ==
    /\ pc = "left"
    /\ pc' = "cancelling"
    /\ UNCHANGED <<concurrency, warn_only, links, nlinks, session, lock, task,
                   requests, gatherExc, fails, test_result, stdout, exc>>

\* the fetch of u gets its CancelledError: its request is dropped, and the
\* permit goes back if it was inside `async with lock`
CancelTask(u) ==
    /\ pc = "cancelling"
    /\ task[u].pc \in {"pending", "get", "retry"}
    /\ task' = [task EXCEPT ![u] = Cancelled(@)]
    /\ requests' = [requests EXCEPT ![u] = [i \in DOMAIN @ |-> Abandoned(@[i])]]
    /\ lock' = IF u \in Holders THEN release(lock) ELSE lock
    /\ UNCHANGED <<concurrency, warn_only, links, nlinks, session, gatherExc,
                   fails, test_result, stdout, pc, exc>>

\* the run is over for every fetch
AllEnded == \A u \in DOMAIN task : task[u].pc \in {"returned", "raised", "cancelled"}

\* every task has ended: asyncio.run lets the exception out, it leaves _test
\* and test()
AbortDone_early ==
    /\ pc = "cancelling"
    /\ pc' = "raised"
    /\ exc' = gatherExc
    /\ UNCHANGED <<concurrency, warn_only, links, nlinks, session, lock, task,
                   requests, gatherExc, fails, test_result, stdout>>
AbortDone ==
    /\ pc = "cancelling"
    /\ AllEnded
    /\ pc' = "raised"
    /\ exc' = gatherExc
    /\ UNCHANGED <<concurrency, warn_only, links, nlinks, session, lock, task,
                   requests, gatherExc, fails, test_result, stdout>>

Next ==
    \/ Test
    \/ \E u \in DOMAIN task : FetchStart(u)
    \/ \E u \in DOMAIN task, s \in Statuses : FetchResponse(u, s)
    \/ \E u \in DOMAIN task, e \in SSLErrors : FetchSSLError(u, e)
    \/ \E u \in DOMAIN task, e \in ResponseErrors, s \in ResponseErrorStatuses :
           FetchResponseError(u, e, s)
    \/ \E u \in DOMAIN task, e \in TimeoutErrors : FetchTimeout(u, e)
    \/ \E u \in DOMAIN task, e \in UncaughtErrors : FetchUncaught(u, e)
    \/ \E u \in DOMAIN task, s \in Statuses : RetryResponse(u, s)
    \/ \E u \in DOMAIN task, e \in TransportErrors : RetryError(u, e)
    \/ GatherDone
    \/ GatherRaise
    \/ LeaveGetFailures
    \/ CancelAll
    \/ \E u \in DOMAIN task : CancelTask(u)
    \/ AbortDone

Spec == Init /\ [][Next]_vars

\* The steps the event loop of asyncio.run takes on its own: it wakes the
\* first waiter of the semaphore when a permit is free, and resumes
\* get_failures when gather has its results or its exception, lets the
\* exception out of get_failures, and delivers the cancellations of asyncio.run.
Scheduled ==
    \/ \E u \in DOMAIN task : FetchStart(u)
    \/ GatherDone
    \/ GatherRaise
    \/ LeaveGetFailures
    \/ CancelAll
    \/ \E u \in DOMAIN task : CancelTask(u)
    \/ AbortDone

\* The steps by which the transport ends a request: a response, an error or
\* the timeout.
Answered ==
    \/ \E u \in DOMAIN task, s \in Statuses : FetchResponse(u, s)
    \/ \E u \in DOMAIN task, e \in SSLErrors : FetchSSLError(u, e)
    \/ \E u \in DOMAIN task, e \in ResponseErrors, s \in ResponseErrorStatuses :
           FetchResponseError(u, e, s)
    \/ \E u \in DOMAIN task, e \in TimeoutErrors : FetchTimeout(u, e)
    \/ \E u \in DOMAIN task, e \in UncaughtErrors : FetchUncaught(u, e)
    \/ \E u \in DOMAIN task, s \in Statuses : RetryResponse(u, s)
    \/ \E u \in DOMAIN task, e \in TransportErrors : RetryError(u, e)

\* A run in which the event loop keeps running what is ready and every
\* request ends.
FairSpec == Spec /\ WF_vars(Scheduled) /\ WF_vars(Answered)

\* ---------------------------------------------- what the claims speak of
\* URLs with a request the transport has not answered yet
InFlight == { u \in DOMAIN requests :
                \E i \in DOMAIN requests[u] : requests[u][i].kind = "pending" }

\* number of requests issued in the run
RECURSIVE SumLen(_)
SumLen(S) ==
    IF S = {} THEN 0
    ELSE LET u == CHOOSE v \in S : TRUE IN Len(requests[u]) + SumLen(S \ {u})
TotalRequests == SumLen(DOMAIN requests)

\* the URLs whose fetch returned a response with a status other than 200
NonOK == { u \in DOMAIN task :
             task[u].pc = "returned" /\ task[u].ret # None /\ task[u].ret.status # 200 }

\* the lines of seq that have the form '<u>: <something>'
LinesFor(seq, u) ==
    { i \in DOMAIN seq :
        /\ Len(seq[i]) = Len(u) + 2
        /\ SubSeq(seq[i], 1, Len(u)) = u
        /\ seq[i][Len(u) + 1] = ": " }

\* seq holds exactly one line '<url>: <status>' for every URL whose response
\* was not 200, with the status of that response, and no line for another URL
OneLinePerFailure(seq) ==
    \A u \in DOMAIN task :
        IF u \in NonOK
        THEN /\ Cardinality(LinesFor(seq, u)) = 1
             /\ \A i \in LinesFor(seq, u) :
                    seq[i][Len(u) + 2] = ToString(task[u].ret.status)
        ELSE LinesFor(seq, u) = {}

\* the first request of u ended with an error of one of the kinds
FirstFailedWith(u, kinds) ==
    /\ Len(requests[u]) >= 1
    /\ requests[u][1].kind = "error"
    /\ requests[u][1].error \in kinds

\* ------------------------------------------------------------------ C1
\* C1: with a concurrency limit N >= 1 the number of requests the transport
\* has not answered yet, first attempts and TLS retries alike, never exceeds N.
C1_InFlightBounded ==
    concurrency >= 1 => Cardinality(InFlight) <= concurrency

\* the gate is full, one fetch waits behind it and one holder is in its retry
C1_Witness ==
    /\ concurrency >= 1
    /\ Cardinality(InFlight) = concurrency
    /\ \E u \in DOMAIN task : task[u].pc = "pending"
    /\ \E u \in InFlight : Len(requests[u]) = 2

\* ------------------------------------------------------------------ C2
\* C2 as claimed: under either policy a completed check passed iff no URL
\* answered with a status other than 200.
C2_Original ==
    test_result.made => (test_result.passed <=> NonOK = {})

\* C2 amended: a completed check has every fetch returned; under the
\* intolerant policy passed is true iff no URL answered with a status other
\* than 200 (3xx included), under the tolerant policy passed is always true.
C2_Passed ==
    test_result.made =>
        /\ \A u \in DOMAIN task : task[u].pc = "returned"
        /\ test_result.passed <=> (warn_only \/ NonOK = {})

\* an intolerant run with a 200 and a redirect: it fails
C2_Witness ==
    /\ test_result.made
    /\ ~warn_only
    /\ ~test_result.passed
    /\ \E u \in DOMAIN task : task[u].ret # None /\ task[u].ret.status = 301
    /\ \E u \in DOMAIN task : task[u].ret # None /\ task[u].ret.status = 200

\* ------------------------------------------------------------------ C3
\* C3 as claimed: the diagnostics of every completed check hold exactly one
\* line '<url>: <status>' per URL that did not answer 200, none for the
\* others, and are empty exactly when no URL failed.
C3_Original ==
    test_result.made =>
        /\ OneLinePerFailure(test_result.output)
        /\ Len(test_result.output) = Cardinality(NonOK)
        /\ test_result.output = <<>> <=> NonOK = {}

\* C3 amended: under the intolerant policy the diagnostics are as claimed;
\* under the tolerant policy the diagnostics are empty and the same lines, one
\* per URL that did not answer 200, are printed as warnings instead.
C3_Diagnostics ==
    test_result.made =>
        IF warn_only
        THEN /\ test_result.output = <<>>
             /\ OneLinePerFailure(stdout)
        ELSE /\ OneLinePerFailure(test_result.output)
             /\ Len(test_result.output) = Cardinality(NonOK)
             /\ test_result.output = <<>> <=> NonOK = {}

\* an intolerant run with two failing URLs and one that answered 200
C3_Witness ==
    /\ test_result.made
    /\ ~warn_only
    /\ Cardinality(NonOK) = 2
    /\ Len(test_result.output) = 2
    /\ \E u \in DOMAIN task : task[u].ret # None /\ task[u].ret.status = 200

\* ------------------------------------------------------------------ C4
\* C4 as claimed: a completed run issued as many requests as there are
\* distinct stripped URLs, none of them twice.
C4_Original ==
    test_result.made =>
        /\ TotalRequests = Len(links)
        /\ \A u \in DOMAIN requests : Len(requests[u]) <= 1

\* u is link l up to its first "#"
IsStem(u, l) ==
    /\ \A i \in DOMAIN u : u[i] # "#"
    /\ Len(u) <= Len(l)
    /\ SubSeq(l, 1, Len(u)) = u
    /\ Len(l) = Len(u) \/ l[Len(u) + 1] = "#"

\* the step of _test that turns the catalogue into the URL set: every link
\* has its stem in the set, the set holds nothing else and nothing twice
C4_Dedup ==
    (pc = "constructed" /\ pc' # "constructed") =>
        /\ \A i, j \in DOMAIN links' : i # j => links'[i] # links'[j]
        /\ \A i \in DOMAIN links : \E j \in DOMAIN links' : IsStem(links'[j], links[i])
        /\ \A j \in DOMAIN links' : \E i \in DOMAIN links : IsStem(links'[j], links[i])

\* requests go to the URLs of the set only; a URL has at most one first
\* attempt and at most one more request, the retry after a TLS error of the
\* first attempt under the tolerant policy; a completed run has requested
\* every URL
C4_Counts ==
    lock.made =>
        /\ DOMAIN requests = Range(links)
        /\ Len(links) <= nlinks
        /\ \A u \in DOMAIN requests :
              /\ Len(requests[u]) <= 2
              /\ Len(requests[u]) = 2 => (warn_only /\ FirstFailedWith(u, SSLErrors))
              /\ test_result.made => Len(requests[u]) >= 1
        /\ test_result.made =>
              TotalRequests = Len(links)
                  + Cardinality({ u \in DOMAIN requests : FirstFailedWith(u, SSLErrors) })

\* C4 amended: links that differ only in their fragment are one URL of the
\* set; every URL of the set gets at most one first attempt, exactly one in a
\* run that completes with a result; the only further request is the single
\* retry of a URL whose first attempt raised a TLS error under the tolerant
\* policy, so a completed run issued (distinct URLs + such retries) requests.
C4_Requests == [][C4_Dedup]_vars /\ []C4_Counts

\* a completed run over a catalogue with more entries than URLs, one retried
C4_Witness ==
    /\ test_result.made
    /\ Len(links) = 2
    /\ nlinks = 3
    /\ TotalRequests = 3

\* ------------------------------------------------------------------ C5
\* C5: under the tolerant policy no transport error leaves the run.
C5_NoRawError ==
    warn_only => exc \notin TransportErrors

\* ------------------------------------------------------------------ C6
\* C6: free permits plus fetches inside the gate equal the limit at any time,
\* and the gate is at full capacity once every fetch has ended, however it
\* ended.
C6_GateRestored ==
    lock.made =>
        /\ lock.value + Cardinality(Holders) = concurrency
        /\ AllEnded => lock.value = concurrency

\* every way out of the gate was taken: a return, a raise, a cancellation of
\* a fetch that held a permit
C6_Witness ==
    /\ lock.made
    /\ concurrency >= 1
    /\ AllEnded
    /\ lock.value = concurrency
    /\ \E u \in DOMAIN task : task[u].pc = "returned"
    /\ \E u \in DOMAIN task : task[u].pc = "raised"
    /\ \E u \in DOMAIN task : task[u].pc = "cancelled" /\ Len(requests[u]) >= 1

\* ------------------------------------------------------------------ C7
\* C7: under the intolerant policy a URL whose request raised a TLS error is
\* not retried, its fetch raises, and the run builds no result: it is on its
\* way to, or has ended with, a transport error leaving test().
C7_SSLAborts ==
    ~warn_only =>
        \A u \in DOMAIN requests :
            FirstFailedWith(u, SSLErrors) =>
                /\ Len(requests[u]) = 1
                /\ task[u].pc = "raised"
                /\ gatherExc \in TransportErrors
                /\ ~test_result.made
                /\ pc \in {"gather", "closing", "left", "cancelling", "raised"}
                /\ pc = "raised" => exc \in TransportErrors

\* the TLS error has left test() and a fetch was cancelled
C7_Witness ==
    /\ ~warn_only
    /\ pc = "raised"
    /\ exc \in SSLErrors
    /\ \E u \in DOMAIN requests : FirstFailedWith(u, SSLErrors)
    /\ \E u \in DOMAIN task : task[u].pc = "cancelled"

\* ------------------------------------------------------------------ C8
\* C8: under the tolerant policy a URL whose first request raised a TLS error
\* has exactly one more request, issued with certificate validation off; the
\* response of that request is what the fetch returns, and in a completed run
\* the URL is among the failures iff that response is not 200.
C8_RetryOnce ==
    warn_only =>
        \A u \in DOMAIN requests :
            FirstFailedWith(u, SSLErrors) =>
                /\ Len(requests[u]) = 2
                /\ requests[u][1].ssl
                /\ ~requests[u][2].ssl
                /\ requests[u][2].kind = "response" =>
                      /\ task[u].pc = "returned"
                      /\ task[u].ret = [url |-> u, status |-> requests[u][2].status]
                      /\ test_result.made =>
                            ((\E i \in DOMAIN fails : fails[i].url = u)
                                <=> requests[u][2].status # 200)

\* a completed tolerant run with a retry that answered 404 and one that answered 200
C8_Witness ==
    /\ warn_only
    /\ test_result.made
    /\ \E u \in DOMAIN requests :
          FirstFailedWith(u, SSLErrors) /\ requests[u][2].status = 404
    /\ \E u \in DOMAIN requests :
          FirstFailedWith(u, SSLErrors) /\ requests[u][2].status = 200

\* ------------------------------------------------------------------ C9
\* C9: a request that timed out or raised an HTTP response error makes, under
\* the tolerant policy, its fetch return nothing (no failure, no abort), and
\* makes, under the intolerant policy, its fetch raise so that no result is
\* built.
C9_TimeoutAndHttpError ==
    \A u \in DOMAIN requests :
        \A i \in DOMAIN requests[u] :
            (requests[u][i].kind = "error"
                /\ requests[u][i].error \in TimeoutErrors \cup ResponseErrors) =>
                IF warn_only
                THEN /\ task[u].pc = "returned"
                     /\ task[u].ret = None
                     /\ task[u].exc = "none"
                ELSE /\ task[u].pc = "raised"
                     /\ ~test_result.made

\* ----------------------------------------------------------------- C10
\* C10: a tester constructed with a limit of 0 or less never opens a session,
\* builds a gate or leaves the constructed state.
C10_FailFast ==
    concurrency <= 0 =>
        /\ pc = "constructed"
        /\ session = "none"
        /\ ~lock.made

\* ----------------------------------------------------------------- C11
\* the URLs whose last request was answered with a status other than 200, as
\* the transport saw it
AnsweredNon200 ==
    { u \in DOMAIN requests :
        /\ Len(requests[u]) >= 1
        /\ Last(requests[u]).kind = "response"
        /\ Last(requests[u]).status # 200 }

\* one line '<url>: <status>' per such URL
OutcomeLines ==
    { u \o <<": ", ToString(Last(requests[u]).status)>> : u \in AnsweredNon200 }

\* C11: the passed value and the set of diagnostics of a completed run are a
\* function of the policy and of what the transport answered for each URL
\* alone: neither the order in which the URL set is iterated nor the order in
\* which requests are admitted and complete enters it, so two runs with the
\* same outcomes agree on both.
C11_OrderIndependent ==
    test_result.made =>
        /\ test_result.passed = (warn_only \/ AnsweredNon200 = {})
        /\ Range(test_result.output) = (IF warn_only THEN {} ELSE OutcomeLines)

\* an intolerant run over three URLs, two of them admitted together, with two
\* failures among them
C11_Witness ==
    /\ test_result.made
    /\ ~warn_only
    /\ concurrency = 2
    /\ Len(links) = 3
    /\ Cardinality(AnsweredNon200) = 2
    /\ Cardinality(Range(test_result.output)) = 2

\* ----------------------------------------------------------------- C12
\* the characters of the URLs, in ascending order
CharOrder == <<"#", "a", "b", "c", "x", "y", "z">>
CharRank(c) == CHOOSE i \in DOMAIN CharOrder : CharOrder[i] = c

\* a sorts before b
RECURSIVE UrlLess(_, _)
UrlLess(a, b) ==
    IF a = <<>> THEN b # <<>>
    ELSE IF b = <<>> THEN FALSE
    ELSE IF Head(a) = Head(b) THEN UrlLess(Tail(a), Tail(b))
    ELSE CharRank(Head(a)) < CharRank(Head(b))

\* the URL of a line '<url>: <status>'
UrlOfLine(line) == SubSeq(line, 1, Len(line) - 2)

\* C12: the diagnostics of a completed run are the lines of the failing URLs
\* in an order fixed by the outcomes alone, here ascending by URL, whatever
\* the order in which the URL set was iterated.
C12_DiagnosticsSorted ==
    test_result.made =>
        \A i, j \in DOMAIN test_result.output :
            i < j => UrlLess(UrlOfLine(test_result.output[i]),
                             UrlOfLine(test_result.output[j]))

\* ----------------------------------------------------------------- C13
\* the exception is on its way out of get_failures, asyncio.run and test()
Aborting == pc \in {"closing", "left", "cancelling"}

\* from the first fetch that raises on: no result is or gets built; every
\* stage of the abort can be taken at once whatever is still in flight, the
\* last one as soon as the cancelled fetches have ended; and once the error
\* has left test() every fetch has ended, no request is in flight and the
\* session is closed
C13_Aborted ==
    gatherExc # "none" =>
        /\ ~test_result.made
        /\ fails = <<>>
        /\ pc = "gather" \/ Aborting \/ pc = "raised"
        /\ pc = "gather" => ENABLED GatherRaise
        /\ pc = "closing" => ENABLED LeaveGetFailures
        /\ pc = "left" => ENABLED CancelAll
        /\ pc = "cancelling" =>
              \/ ENABLED AbortDone
              \/ \E u \in DOMAIN task : ENABLED CancelTask(u)
        /\ pc = "raised" =>
              /\ exc = gatherExc
              /\ AllEnded
              /\ InFlight = {}
              /\ session = "closed"

\* no step after the first raise touches the failures or builds a result,
\* whichever fetch still completes; and no step at all follows the error
\* leaving test()
C13_Frozen ==
    /\ gatherExc # "none" => UNCHANGED <<fails, test_result>>
    /\ (gatherExc # "none" /\ pc = "raised") => UNCHANGED vars

\* C13: after a fetch raised, the error travels out of get_failures and
\* test() without waiting for the requests still in flight: these are
\* cancelled. A fetch that still completes before its cancellation changes
\* neither the failures nor a result, and nothing changes once the error has
\* left test(); no BuildTestResult exists for an aborted run.
C13_AbortIsFinal == []C13_Aborted /\ [][C13_Frozen]_vars

\* an aborted run: the session is closed and the cancellation under way, one
\* fetch is cancelled with its request dropped, one still has its request in
\* flight
C13_Witness ==
    /\ pc = "cancelling"
    /\ session = "closed"
    /\ ~test_result.made
    /\ \E u \in DOMAIN task :
          task[u].pc = "cancelled" /\ Len(requests[u]) >= 1
              /\ Last(requests[u]).kind = "cancelled"
    /\ InFlight # {}

\* ----------------------------------------------------------------- C14
\* the lines of out stand in seq, indented, one after the other right after
\* a line 'Output:'
EmittedIn(seq, out) ==
    \E k \in DOMAIN seq :
        /\ seq[k] = <<"Output:">>
        /\ k + Len(out) <= Len(seq)
        /\ \A i \in DOMAIN out : seq[k + i] = <<"  ">> \o out[i]

\* no line of seq is a failure report of test()
NothingReported(seq) ==
    \A k \in DOMAIN seq :
        /\ seq[k] # <<"Output:">>
        /\ seq[k] # <<"  - Fail!">>
        /\ seq[k] # <<>> => seq[k][1] # "  "

\* C14: BuildTestFailure leaves test() iff _test returned a result with
\* passed = false; by then 'Fail!' and every line of the result's output have
\* been printed, in order; with passed = true test() returns, signals
\* nothing and prints no failure report and no output line.
C14_FailureSignal ==
    /\ exc = "BuildTestFailure" <=> (test_result.made /\ ~test_result.passed)
    /\ test_result.made =>
          IF test_result.passed
          THEN /\ pc = "returned"
               /\ exc = "none"
               /\ NothingReported(stdout)
          ELSE /\ pc = "raised"
               /\ \E k \in DOMAIN stdout : stdout[k] = <<"  - Fail!">>
               /\ test_result.output # <<>> => EmittedIn(stdout, test_result.output)

\* BuildTestFailure has left test() after two diagnostics lines were printed
C14_Witness ==
    /\ exc = "BuildTestFailure"
    /\ pc = "raised"
    /\ Len(test_result.output) = 2
    /\ EmittedIn(stdout, test_result.output)

\* ----------------------------------------------------------------- C15
\* seq has a line that starts with the tokens of prefix
HasLineStarting(seq, prefix) ==
    \E k \in DOMAIN seq :
        /\ Len(seq[k]) >= Len(prefix)
        /\ SubSeq(seq[k], 1, Len(prefix)) = prefix

\* the warning printed in the except clauses of fetch for the first error of u
WarnedOnError(u) ==
    /\ FirstFailedWith(u, SSLErrors) =>
          HasLineStarting(stdout, <<"SSL error when fetching ">> \o u)
    /\ FirstFailedWith(u, ResponseErrors) =>
          HasLineStarting(stdout, <<"Error fetching ">> \o u)
    /\ FirstFailedWith(u, TimeoutErrors) =>
          HasLineStarting(stdout, <<"Took too long trying to fetch ">> \o u)

\* C15: under the tolerant policy every tolerated failure has a warning that
\* names its URL: a TLS error, an HTTP response error and a timeout as soon
\* as the fetch has handled them, an answer other than 200 by the time the
\* run has ended; and a result, once built, has passed = true.
C15_EveryFailureWarned ==
    warn_only =>
        /\ \A u \in DOMAIN requests : WarnedOnError(u)
        /\ pc \in {"returned", "raised"} =>
              \A u \in AnsweredNon200 : LinesFor(stdout, u) # {}
        /\ test_result.made => test_result.passed

\* ----------------------------------------------------------------- C16
\* C16: a link check over an empty URL set, with any limit the gate accepts
\* and under either policy, has returned from test() with passed = true and
\* no diagnostics, without a fetch, a request or a permit taken from the gate.
C16_EmptySet ==
    (pc # "constructed" /\ links = <<>> /\ concurrency >= 0) =>
        /\ pc = "returned"
        /\ exc = "none"
        /\ test_result = BuildTestResult(TRUE, <<>>)
        /\ fails = <<>>
        /\ DOMAIN task = {}
        /\ DOMAIN requests = {}
        /\ lock = Semaphore(concurrency)
        /\ session = "closed"

\* the intolerant check of an empty catalogue has passed
C16_Witness ==
    /\ pc = "returned"
    /\ links = <<>>
    /\ nlinks = 0
    /\ ~warn_only
    /\ test_result.passed
    /\ TotalRequests = 0

\* ----------------------------------------------------------------- C17
\* every URL a catalogue can hold
AllURLs == { strip_fragment_identifiers(l) : l \in LinkPool }

\* u went through the gate: its first request was issued
Admitted(u) == u \in DOMAIN requests /\ Len(requests[u]) >= 1

\* the fetch of u was cancelled by an abort before it went through the gate
CancelledAtGate(u) ==
    /\ pc = "raised"
    /\ u \in DOMAIN task
    /\ task[u].pc = "cancelled"
    /\ Len(requests[u]) = 0

Running == concurrency >= 1 /\ (pc = "gather" \/ Aborting)
Ended == pc \in {"returned", "raised"}

\* in a run with a limit of at least 1 that has ended, every URL went through
\* the gate
AllAdmittedAtEnd ==
    (concurrency >= 1 /\ Ended) => \A u \in DOMAIN task : Admitted(u)

\* in a run with a limit of at least 1 that has ended, no fetch is left
\* waiting: every URL went through the gate or its fetch was cancelled there
\* by the abort
NoneLeftWaiting ==
    (concurrency >= 1 /\ Ended) =>
        \A u \in DOMAIN task : Admitted(u) \/ CancelledAtGate(u)

\* C17 as claimed: with a limit of at least 1 the run eventually ends, and
\* by then every URL has been admitted through the gate.
C17_Original == (Running ~> Ended) /\ []AllAdmittedAtEnd

\* C17 amended: with a limit of at least 1 the run eventually ends, with a
\* result or with an abort, and by then every fetch has been admitted through
\* the gate or was cancelled there by the abort; none waits forever, also
\* after other fetches have failed.
C17_Live == (Running ~> Ended) /\ []NoneLeftWaiting

\* three fetches went one by one through a gate of one, the second and third
\* after a fetch before them had failed with a timeout, and the run completed
C17_Witness ==
    /\ concurrency = 1
    /\ warn_only
    /\ pc = "returned"
    /\ Len(links) = 3
    /\ \A u \in DOMAIN requests : Admitted(u)
    /\ FirstFailedWith(links[1], TimeoutErrors)

\* ----------------------------------------------------------------- C18
\* request i of u ended with a timeout or an HTTP response error
TimedOutOrHttpError(u, i) ==
    /\ requests[u][i].kind = "error"
    /\ requests[u][i].error \in TimeoutErrors \cup ResponseErrors

\* C18: a request that ended with a timeout or an HTTP response error is the
\* last one ever issued for its URL; no URL has more than two requests, and a
\* second one exists only where the first raised a TLS error under the
\* tolerant policy.
C18_TerminalOutcomes ==
    \A u \in DOMAIN requests :
        /\ Len(requests[u]) <= 2
        /\ \A i \in DOMAIN requests[u] :
              TimedOutOrHttpError(u, i) => i = Len(requests[u])
        /\ Len(requests[u]) = 2 =>
              /\ warn_only
              /\ requests[u][1].kind = "error"
              /\ requests[u][1].error \in SSLErrors

\* a completed tolerant run: one URL timed out, one raised a response error,
\* each requested once, and one was retried after a TLS error
C18_Witness ==
    /\ warn_only
    /\ pc = "returned"
    /\ \E u \in DOMAIN requests :
          Len(requests[u]) = 1 /\ FirstFailedWith(u, TimeoutErrors)
    /\ \E u \in DOMAIN requests :
          Len(requests[u]) = 1 /\ FirstFailedWith(u, ResponseErrors)
    /\ \E u \in DOMAIN requests : Len(requests[u]) = 2

\* ----------------------------------------------------------------- C19
\* the step that issues the retry of u
RetryIssued(u) ==
    /\ u \in DOMAIN requests
    /\ Len(requests[u]) = 1
    /\ u \in DOMAIN requests'
    /\ Len(requests'[u]) = 2

\* the step that issues the retry leaves the gate as it is, its fetch is
\* inside the gate before and after, and no other fetch moves
C19_RetryStep ==
    \A u \in AllURLs :
        RetryIssued(u) =>
            /\ lock' = lock
            /\ u \in Holders
            /\ u \in Holders'
            /\ \A v \in DOMAIN task \ {u} : task'[v] = task[v]

\* while a retry is in flight its fetch holds one permit: the free permits
\* plus the fetches inside the gate are the limit, and at least one is taken
C19_OnePermit ==
    \A u \in DOMAIN task :
        task[u].pc = "retry" =>
            /\ u \in InFlight
            /\ lock.value + Cardinality(Holders) = concurrency
            /\ lock.value < concurrency

\* C19: the retry after a TLS error is issued inside the same `async with
\* lock` as the first attempt: the step from the first request to the second
\* neither releases nor acquires a permit, the URL holds exactly one permit
\* throughout, and no waiting fetch is admitted by that step.
C19_RetryHoldsPermit == [][C19_RetryStep]_vars /\ []C19_OnePermit

\* behind a gate of one the first URL is in its retry and the second waits
C19_Witness ==
    /\ pc = "gather"
    /\ concurrency = 1
    /\ Len(links) >= 2
    /\ task[links[1]].pc = "retry"
    /\ task[links[2]].pc = "pending"
    /\ lock.value = 0

====
